---- MODULE Spec2Model ----
(***************************************************************************)
(* A model of platipy's generate_left_ventricle_segments                   *)
(* (src/platipy/imaging/utils/ventricle.py).                               *)
(*                                                                         *)
(* Numbers.  Angles are integer multiples of 15 degrees (np.pi is 12       *)
(* units), so every window limit of the source (multiples of pi/4 and of   *)
(* pi/3) is an exact value.  Lengths are millimetres.                      *)
(*                                                                         *)
(* Volumes.  A voxel index is (z, r, a): z the slice along the third image *)
(* axis, and (r, a) the in-plane position given in polar form about the    *)
(* slice centroid: r the ring, a the ring position, whose arctan2 about    *)
(* the centroid is Arctan2Of(a).  The voxels are numbered slice by slice,  *)
(* as in the image buffer.  A binary image is its geometry and the set of  *)
(* its positive voxels.  Cropping is followed along z, the axis along      *)
(* which the model's inputs leave room around the heart.                   *)
(***************************************************************************)
EXTENDS Integers, Sequences, FiniteSets, TLC

\* ------------------------------------------------------------------ bounds
\* Largest optimiser_max_iter the inputs are drawn with.
MaxIter == 1
\* Number of slices of the input volumes.
FullSize == 14
\* Outermost in-plane ring of a volume.
MaxRing == 2

\* ---------------------------------------------------------------- numbers
\* np.pi, in units of 15 degrees.
Pi == 12
\* expansion_mm along the third axis, line 114.
ExpansionMM == 60
\* The number of slices theta_0 is taken over, line 286.
BasalSlices == 5

Ring == 0..(2 * Pi - 1)
Rings == 0..MaxRing

Abs(x) == IF x < 0 THEN -x ELSE x
Min(S) == CHOOSE x \in S : \A y \in S : x <= y
Max(S) == CHOOSE x \in S : \A y \in S : x >= y

\* x // y of Python for y > 0: the floor of the quotient.
FloorDiv(x, y) == x \div y

\* int(x / y) of Python for y > 0: truncation toward zero.
IntDiv(x, y) == IF x >= 0 THEN x \div y ELSE -((-x) \div y)

\* np.arctan2(loc_y - y_0, loc_x - x_0) of the voxel at ring position a: a
\* value in (-pi, pi].
Arctan2Of(a) == IF a > Pi THEN a - 2 * Pi ELSE a

\* ------------------------------------------------------------ dictionaries
\* A dictionary key: a label name (str) or a segment number (int).
Name(s) == [label |-> s, id |-> 0]
Seg(k) == [label |-> "", id |-> k]

label_left_ventricle == Name("LEFTVENTRICLE")
label_left_atrium == Name("LEFTATRIUM")
label_right_ventricle == Name("RIGHTVENTRICLE")
label_mitral_valve == Name("MITRALVALVE")
label_heart == Name("WHOLEHEART")

Required == {label_left_ventricle, label_left_atrium, label_right_ventricle,
             label_mitral_valve, label_heart}

EmptyDict == [k \in {} |-> 0]

\* ----------------------------------------------------------------- images
Geometry(size, spacing, origin, direction) ==
    [size |-> size, spacing |-> spacing, origin |-> origin, direction |-> direction]

Image(geom, vox) == [geom |-> geom, vox |-> vox]

\* The number of voxels of a slice, and the voxel (z, r, a) with its parts.
SliceVoxels == (MaxRing + 1) * (2 * Pi)
Voxel(z, r, a) == z * SliceVoxels + r * (2 * Pi) + a
Z(p) == p \div SliceVoxels
R(p) == (p % SliceVoxels) \div (2 * Pi)
A(p) == p % (2 * Pi)

Indices(size) == 0..(size * SliceVoxels - 1)

\* image * 0, 0 * image
Zero(img) == Image(img.geom, {})

\* image > 0
Positive(img) == Image(img.geom, img.vox)

\* image[:, :, n]
SliceOf(img, n) == {p \in img.vox : Z(p) = n}

\* The bounds of a Python slice lo:hi on an axis of the given size.
PyIndex(i, size) == IF i < 0 THEN Max({i + size, 0}) ELSE Min({i, size})

\* The image with no slice set to 0.
KeepSlices(img, lo, hi) == img

\* image[:, :, lo:hi] = 0
ZeroSlices(img, lo, hi) ==
    LET first == PyIndex(lo, img.geom.size)
        last == PyIndex(hi, img.geom.size)
    IN  Image(img.geom, {p \in img.vox : ~(first <= Z(p) /\ Z(p) < last)})

\* The offsets of sitk's ball structuring element of the given radius.
BallOffsets(rad) ==
    {o \in [dz : (-rad)..rad, dr : (-rad)..rad, da : (-rad)..rad] :
        o.dz * o.dz + o.dr * o.dr + o.da * o.da <= rad * rad}

\* The same, tabulated for the small radii.
SmallBalls == [rad \in 0..2 |-> BallOffsets(rad)]

Kernel(rad) == IF rad \in DOMAIN SmallBalls THEN SmallBalls[rad] ELSE BallOffsets(rad)

\* Whether the voxel (z, r, a) is a voxel of an image of the given size.
Inside(z, r, size) == z \in 0..(size - 1) /\ r \in Rings

\* Whether the neighbour of p at offset o lies inside the image, and which
\* voxel it then is.
HasNbr(p, o, size) == Inside(Z(p) + o.dz, R(p) + o.dr, size)
Nbr(p, o) == Voxel(Z(p) + o.dz, R(p) + o.dr, (A(p) + o.da) % (2 * Pi))

\* sitk.BinaryErode(image, radius): what lies outside the image counts as
\* foreground (boundaryToForeground is True by default).
BinaryErode(img, rad) ==
    LET kernel == Kernel(rad)
        vox == img.vox
        size == img.geom.size
    IN  Image(img.geom,
              {p \in vox : \A o \in kernel : HasNbr(p, o, size) => Nbr(p, o) \in vox})

\* sitk.BinaryDilate(image, radius)
BinaryDilate(img, rad) ==
    LET kernel == Kernel(rad)
        vox == img.vox
        size == img.geom.size
    IN  Image(img.geom,
              UNION {{Nbr(p, o) : o \in {x \in kernel : HasNbr(p, x, size)}} : p \in vox})

\* The image with no mask applied.
Unmasked(img, mask) == img

\* sitk.Mask(image, mask)
Mask(img, mask) == Image(img.geom, img.vox \cap mask.vox)

\* Whether the position (z, r, a), inside the image or beyond its border, is
\* set by the dilation of the voxels.
InDilation(vox, kernel, size, z, r, a) ==
    \E o \in kernel :
        /\ Inside(z + o.dz, r + o.dr, size)
        /\ Voxel(z + o.dz, r + o.dr, (a + o.da) % (2 * Pi)) \in vox

\* sitk.BinaryMorphologicalClosing(image, radius): a dilation then an erosion,
\* on the image padded by the radius (safeBorder is True by default), so that
\* the border of the image adds no voxel.
BinaryMorphologicalClosing(img, rad) ==
    LET kernel == Kernel(rad)
        vox == img.vox
        size == img.geom.size
    IN  Image(img.geom,
              {p \in BinaryDilate(img, rad).vox :
                  \A o \in kernel :
                      R(p) + o.dr >= 0
                          => InDilation(vox, kernel, size, Z(p) + o.dz, R(p) + o.dr,
                                        A(p) + o.da)})

\* ------------------------------------------------------------- transforms
\* A rigid rotation: its centre along z (twice the coordinate, so that the
\* mid-point of two voxel centres is a value), the direction of its in-plane
\* axis, and its angle in degrees.  The rotation axis is a cross product with
\* (0, 0, 1), so it lies in the slice plane; the rotations that map the voxel
\* grid onto itself are then the half turns about an in-plane axis and the
\* rotation by 0.
VersorRigid3DTransform(centre2, axis, angle) ==
    [centre2 |-> centre2, axis |-> axis, angle |-> angle]

\* TransformPoint: the image of the physical point q.
TransformPoint(T, q) ==
    IF T.angle = 0 THEN q
    ELSE [z |-> T.centre2 - q.z, r |-> q.r, a |-> (2 * T.axis - q.a) % (2 * Pi)]

\* A half turn and the rotation by 0 are their own inverses.
InverseOf(T) == T

TransformIndexToPhysicalPoint(geom, p) ==
    [z |-> geom.origin + Z(p) * geom.spacing, r |-> R(p), a |-> A(p)]

\* The slice nearest to the physical point q, and the voxel nearest to it.
NearestSlice(geom, q) ==
    (2 * (q.z - geom.origin) + geom.spacing) \div (2 * geom.spacing)
TransformPhysicalPointToIndex(geom, q) == Voxel(NearestSlice(geom, q), q.r, q.a)

\* A composite that keeps only the transform added last.
CompositeLast(list) == <<list[Len(list)]>>

\* sitk.CompositeTransform(list): the transforms are kept as a stack, the one
\* added last is applied first.
CompositeTransform(list) == list

RECURSIVE TransformPoints(_, _)
TransformPoints(stack, q) ==
    IF stack = << >> THEN q
    ELSE TransformPoints(SubSeq(stack, 1, Len(stack) - 1),
                         TransformPoint(stack[Len(stack)], q))

\* The inverses, kept in the order of the transforms.
GetInverseSameOrder(stack) == [i \in 1..Len(stack) |-> InverseOf(stack[i])]

\* CompositeTransform.GetInverse(): the inverses, in the opposite order.
GetInverse(stack) ==
    [i \in 1..Len(stack) |-> InverseOf(stack[Len(stack) + 1 - i])]

\* sitk.Resample(image, transform, sitk.sitkNearestNeighbor, 0): the output
\* has the geometry of the image, and its voxel p takes the value the image
\* has at the transformed physical point of p, 0 outside the image.
Resample(img, stack) ==
    LET geom == img.geom
        vox == img.vox
        transform == stack
    IN  Image(geom,
              {p \in Indices(geom.size) :
                  LET q == TransformPoints(transform,
                                           TransformIndexToPhysicalPoint(geom, p))
                  IN  /\ NearestSlice(geom, q) \in 0..(geom.size - 1)
                      /\ TransformPhysicalPointToIndex(geom, q) \in vox})

\* -------------------------------------------------------------- centroids
RECURSIVE SumZ(_)
SumZ(S) ==
    IF S = {} THEN 0
    ELSE LET p == CHOOSE x \in S : TRUE IN Z(p) + SumZ(S \ {p})

\* get_com(image)[0]: the slice of the centre of mass, as an integer.
ComZ(vox) == IntDiv(SumZ(vox), Cardinality(vox))

RECURSIVE SumArctan2(_)
SumArctan2(S) ==
    IF S = {} THEN 0
    ELSE LET p == CHOOSE x \in S : TRUE IN Arctan2Of(A(p)) + SumArctan2(S \ {p})

\* The direction in which the centroid of the voxels lies as seen from the
\* slice centroid.  The inputs keep the right ventricle of a slice on one
\* ring position, where this is the position's own direction.
ComDirection(vox) == IntDiv(SumArctan2(vox), Cardinality(vox))

\* The exception of get_com for an image without a positive voxel, whose
\* centre of mass is undefined.
get_com_error(vox) == IF vox = {} THEN "EmptyMaskError" ELSE "none"

\* ------------------------------------------------------------------- crop
\* label_to_roi(label, expansion_mm): the bounding box of the label along z,
\* widened by the expansion and kept inside the image.
label_to_roi(label, expansion_mm) ==
    LET zs == {Z(p) : p \in label.vox}
        expansion == expansion_mm \div label.geom.spacing
        index == Max({Min(zs) - expansion, 0})
    IN  [index |-> index,
         size |-> Min({label.geom.size - index,
                       (Max(zs) - Min(zs) + 1) + 2 * expansion})]

\* The exception of label_to_roi for a label without a positive voxel, whose
\* bounding box is undefined.
label_to_roi_error(label) ==
    IF label.vox = {} THEN "MissingStructureError" ELSE "none"

\* Whether sitk.RegionOfInterest accepts the box for this image.
RoiFits(img, size, index) == index >= 0 /\ size >= 1 /\ index + size <= img.geom.size

\* crop_to_roi(image, size, index)
crop_to_roi(img, size, index) ==
    Image(Geometry(size, img.geom.spacing,
                   img.geom.origin + index * img.geom.spacing, img.geom.direction),
          {p - index * SliceVoxels :
              p \in {q \in img.vox : index <= Z(q) /\ Z(q) < index + size}})

\* A paste that hands back the cropped volume.
PasteNothing(destination, source, index) == source

\* sitk.Paste(destination, source, source.GetSize(), (0, 0, 0), index)
Paste(destination, source, index) ==
    Image(destination.geom,
          {p \in destination.vox :
              ~(index <= Z(p) /\ Z(p) < index + source.geom.size)}
          \cup {p + index * SliceVoxels : p \in source.vox})

\* ------------------------------------------------------- angular windows
\* theta = -np.arctan2(loc_y - y_0, loc_x - x_0) - reference, then
\* theta[theta < 0] += 2 * np.pi
Theta(a, reference) ==
    IF -Arctan2Of(a) - reference < 0
    THEN -Arctan2Of(a) - reference + 2 * Pi
    ELSE -Arctan2Of(a) - reference

\* in_segment_condition of extract
InSegmentCondition(angle, angle_min, angle_max, cw) ==
    IF cw
    THEN (angle <= angle_min) \/ (angle >= angle_max)
    ELSE (angle <= angle_max) /\ (angle >= angle_min)

\* extract: the voxels of the slice whose angle satisfies the condition.
extract(slice, reference, angle_min, angle_max, cw) ==
    {p \in slice : InSegmentCondition(Theta(A(p), reference), angle_min, angle_max, cw)}

ApicalSegments == 13..16
MidSegments == 7..12
BasalSegments == 1..6

\* The arguments with which extract is called for each segment.
Window(s) ==
    CASE s = 13 -> [angle_min |-> (5 * Pi) \div 4, angle_max |-> (7 * Pi) \div 4, cw |-> FALSE]
      [] s = 14 -> [angle_min |-> (1 * Pi) \div 4, angle_max |-> (7 * Pi) \div 4, cw |-> TRUE]
      [] s = 15 -> [angle_min |-> (1 * Pi) \div 4, angle_max |-> (3 * Pi) \div 4, cw |-> FALSE]
      [] s = 16 -> [angle_min |-> (3 * Pi) \div 4, angle_max |-> (5 * Pi) \div 4, cw |-> FALSE]
      [] s \in {8, 2} -> [angle_min |-> 0, angle_max |-> Pi \div 3, cw |-> FALSE]
      [] s \in {9, 3} -> [angle_min |-> (1 * Pi) \div 3, angle_max |-> (2 * Pi) \div 3, cw |-> FALSE]
      [] s \in {10, 4} -> [angle_min |-> (2 * Pi) \div 3, angle_max |-> (3 * Pi) \div 3, cw |-> FALSE]
      [] s \in {11, 5} -> [angle_min |-> (3 * Pi) \div 3, angle_max |-> (4 * Pi) \div 3, cw |-> FALSE]
      [] s \in {12, 6} -> [angle_min |-> (4 * Pi) \div 3, angle_max |-> (5 * Pi) \div 3, cw |-> FALSE]
      [] s \in {7, 1} -> [angle_min |-> (5 * Pi) \div 3, angle_max |-> 2 * Pi, cw |-> FALSE]

\* A slice assignment that also clears the slices above n.
SetSliceAndClearAbove(img, n, selected) ==
    Image(img.geom, {p \in img.vox : Z(p) < n} \cup selected)

\* working_contours[s][:, :, n] = extract(...)
SetSlice(img, n, selected) ==
    Image(img.geom, {p \in img.vox : Z(p) # n} \cup selected)

\* np.median of the values of the sequence (of odd length).
Median(values) ==
    CHOOSE v \in {values[i] : i \in DOMAIN values} :
        /\ 2 * Cardinality({i \in DOMAIN values : values[i] <= v}) > Len(values)
        /\ 2 * Cardinality({i \in DOMAIN values : values[i] >= v}) > Len(values)

\* ------------------------------------------------------------------ state
VARIABLES
    pc,                     \* the position in generate_left_ventricle_segments
    err,                    \* the exception that ended the call, if any
    cfg,                    \* the keyword arguments of the call
    heap,                   \* the two dictionary objects: the caller's, the copy
    working_contours,       \* the dictionary object working_contours names
    output_contours,
    overall_transform_list,
    erode_img, hole_fill_img,
    cb_size, cb_index,
    rotation_angle,
    n,                      \* the counter of the refinement, then the loop index
    next_slice,             \* the next value of the range a slice loop runs over
    assigned,               \* the slices whose assignment step has run
    label_lv_inner, label_lv_myo, label_lv_myo_apex,
    inf_limit_lv, com_mv, apical_extent, mid_extent, basal_extent,
    theta_0, theta_0_apical

vars == <<pc, err, cfg, heap, working_contours, output_contours,
          overall_transform_list, erode_img, hole_fill_img, cb_size, cb_index,
          rotation_angle, n, next_slice, assigned, label_lv_inner,
          label_lv_myo,
          label_lv_myo_apex, inf_limit_lv, com_mv, apical_extent, mid_extent,
          basal_extent, theta_0, theta_0_apical>>

setup_vars == <<erode_img, hole_fill_img>>
crop_vars == <<cb_size, cb_index>>
myo_vars == <<label_lv_inner, label_lv_myo, label_lv_myo_apex, inf_limit_lv,
              com_mv, apical_extent, mid_extent, basal_extent>>
angle_vars == <<theta_0, theta_0_apical>>

\* contours, the argument of the call
contours == heap.caller
\* The dictionary working_contours names.
working == heap[working_contours]

NoError == [kind |-> "none", line |-> 0]

\* An exception leaves the function: nothing is returned.
Raise(kind, line) ==
    /\ pc' = "error"
    /\ err' = [kind |-> kind, line |-> line]

\* ----------------------------------------------------------------- inputs
Cylinder(zs, rs, as) == {Voxel(z, r, a) : z \in zs, r \in rs, a \in as}

InputGeometry == Geometry(FullSize, 30, 0, "identity")

\* The masks of a heart whose long axis is the third image axis: the left
\* ventricle a solid cylinder, the left atrium and the mitral valve at its
\* basal end, the right ventricle beside it in the direction rv.
InputVoxels(label, rv, mv) ==
    CASE label = label_heart -> Cylinder(3..13, Rings, Ring)
      [] label = label_left_ventricle -> Cylinder(3..12, 0..1, Ring)
      [] label = label_left_atrium -> Cylinder({13}, 0..1, Ring)
      [] label = label_mitral_valve -> Cylinder({mv}, {0}, Ring)
      [] label = label_right_ventricle -> Cylinder(3..13, {2}, {rv})
      [] OTHER -> Cylinder({13}, {2}, {0})

\* What may be wrong with an input: a structure is absent, a mask is empty, a
\* mask lies on a grid with another origin or another size.  The kind "short"
\* is no fault: the right ventricle ends at the slice of the mitral valve.
Defects ==
    {[kind |-> "none", label |-> label_heart]}
    \cup [kind : {"absent"}, label : Required]
    \cup [kind : {"empty"},
          label : {label_heart, label_left_ventricle, label_mitral_valve,
                   label_right_ventricle}]
    \cup [kind : {"origin"},
          label : {label_right_ventricle, label_left_atrium, label_mitral_valve}]
    \cup [kind : {"size", "short"}, label : {label_right_ventricle}]

InputImage(label, defect, rv, mv) ==
    IF defect.label # label \/ defect.kind = "none"
    THEN Image(InputGeometry, InputVoxels(label, rv, mv))
    ELSE CASE defect.kind = "empty" -> Image(InputGeometry, {})
           [] defect.kind = "short" ->
                Image(InputGeometry, {p \in InputVoxels(label, rv, mv) : Z(p) <= mv})
           [] defect.kind = "origin" ->
                Image(Geometry(FullSize, 30, 30, "identity"), InputVoxels(label, rv, mv))
           [] OTHER ->
                Image(Geometry(FullSize - 3, 30, 0, "identity"),
                      {p \in InputVoxels(label, rv, mv) : Z(p) < FullSize - 3})

InputContours(defect, rv, mv, extra) ==
    [label \in (Required \cup (IF extra THEN {Name("AORTA")} ELSE {}))
               \ (IF defect.kind = "absent" THEN {defect.label} ELSE {})
        |-> InputImage(label, defect, rv, mv)]

Config(hole_fill_mm, optimiser_max_iter) ==
    [myocardium_thickness_mm |-> 30, hole_fill_mm |-> hole_fill_mm,
     optimiser_tol_degrees |-> 1, optimiser_max_iter |-> optimiser_max_iter]

Init ==
    /\ \E defect \in Defects, rv \in {0, 6}, mv \in {10, 11, 12},
          hole_fill_mm \in {0, 30}, optimiser_max_iter \in 0..MaxIter :
          /\ defect.kind # "none" => (rv = 0 /\ mv = 10)
          /\ mv = 12 => rv = 0
          /\ hole_fill_mm = (IF rv = 0 /\ mv = 11 THEN 30 ELSE 0)
          /\ cfg = Config(hole_fill_mm, optimiser_max_iter)
          /\ heap = [caller |-> InputContours(defect, rv, mv, mv = 10),
                     work |-> EmptyDict]
    /\ pc = "start"
    /\ err = NoError
    /\ working_contours = "caller"
    /\ output_contours = EmptyDict
    /\ overall_transform_list = << >>
    /\ erode_img = 0 /\ hole_fill_img = 0
    /\ cb_size = 0 /\ cb_index = 0
    /\ rotation_angle = 0
    /\ n = 0 /\ next_slice = 0 /\ assigned = {}
    /\ label_lv_inner = Image(InputGeometry, {})
    /\ label_lv_myo = Image(InputGeometry, {})
    /\ label_lv_myo_apex = Image(InputGeometry, {})
    /\ inf_limit_lv = 0 /\ com_mv = 0
    /\ apical_extent = 0 /\ mid_extent = 0 /\ basal_extent = 0
    /\ theta_0 = 0 /\ theta_0_apical = 0

\* ------------------------------------------------------------- the steps
\* working_contours = contours: the caller's dictionary object under a
\* second name.
copy_alias == "caller"

\* copy.deepcopy(contours): a new dictionary object.
copy_deepcopy == "work"

\* Lines 94-104: the working copy, the radii in voxels.
Setup ==
    /\ pc = "start"
    /\ working_contours' = copy_deepcopy
    /\ heap' = [heap EXCEPT ![copy_deepcopy] = contours]
    /\ output_contours' = EmptyDict
    /\ overall_transform_list' = << >>
    /\ IF label_left_ventricle \notin DOMAIN contours
       THEN Raise("KeyError", 102) /\ UNCHANGED setup_vars
       ELSE IF label_heart \notin DOMAIN contours
       THEN Raise("KeyError", 104) /\ UNCHANGED setup_vars
       ELSE /\ erode_img' = IntDiv(cfg.myocardium_thickness_mm,
                                   contours[label_left_ventricle].geom.spacing)
            /\ hole_fill_img' = IntDiv(cfg.hole_fill_mm,
                                       contours[label_heart].geom.spacing)
            /\ pc' = "crop"
            /\ UNCHANGED err
    /\ UNCHANGED <<cfg, crop_vars, rotation_angle, n, next_slice, assigned,
                   myo_vars, angle_vars>>

\* A crop that runs over the required labels and takes an empty volume for
\* one the caller did not give.
CropAllDefault(d, size, index) ==
    [k \in (DOMAIN d) \cup Required |->
        IF k \in DOMAIN contours THEN crop_to_roi(contours[k], size, index)
        ELSE IF k \in DOMAIN d THEN d[k]
        ELSE Zero(crop_to_roi(contours[label_heart], size, index))]

\* A crop that runs over the five named labels only.
CropRequired(d, size, index) ==
    [k \in DOMAIN d |->
        IF k \in Required /\ k \in DOMAIN contours
        THEN crop_to_roi(contours[k], size, index) ELSE d[k]]

\* for label in contours: working_contours[label] = crop_to_roi(contours[label], ...)
CropAll(d, size, index) ==
    [k \in DOMAIN d |->
        IF k \in DOMAIN contours THEN crop_to_roi(contours[k], size, index) ELSE d[k]]

\* Lines 111-118: crop every mask to the box of the whole heart.
Crop ==
    /\ pc = "crop"
    /\ IF label_to_roi_error(Positive(working[label_heart])) # "none"
       THEN Raise(label_to_roi_error(Positive(working[label_heart])), 112)
            /\ UNCHANGED <<heap, crop_vars>>
       ELSE LET roi == label_to_roi(Positive(working[label_heart]), ExpansionMM) IN
            /\ cb_size' = roi.size
            /\ cb_index' = roi.index
            /\ IF \E k \in DOMAIN contours : ~RoiFits(contours[k], roi.size, roi.index)
               THEN Raise("RuntimeError", 118) /\ UNCHANGED heap
               ELSE /\ heap' = [heap EXCEPT
                                   ![working_contours] = CropAll(@, roi.size, roi.index)]
                    /\ pc' = "orient"
                    /\ UNCHANGED err
    /\ UNCHANGED <<cfg, working_contours, output_contours, overall_transform_list,
                   setup_vars, rotation_angle, n, next_slice, assigned,
                   myo_vars, angle_vars>>

\* for label in contours: working_contours[label] = sitk.Resample(...)
ResampleAll(d, T) ==
    [k \in DOMAIN d |->
        IF k \in DOMAIN contours THEN Resample(d[k], <<T>>) ELSE d[k]]

\* What the estimate of the long axis can come to on the voxel grid: the axis
\* is found aligned (angle 0), or opposite to (0, 0, 1) as seen about one of
\* two in-plane axes (angle 180).  The estimate is a function of sub-voxel
\* shape statistics, which the voxel sets do not carry: it is an input.
Estimates == {[axis |-> 0, angle |-> 0], [axis |-> 0, angle |-> 180],
              [axis |-> 1, angle |-> 180]}

\* The rotation centre: a centre of mass, taken at the centre of the volume.
RotationCentre2(geom) == 2 * geom.origin + (geom.size - 1) * geom.spacing

\* np.array(lsf.GetPrincipalAxes(1)[:3]): what the first principal axis of
\* the union can come to, as (x, y, z) on an integer grid.  An eigenvector has
\* no preferred sense, so each sign of each component occurs.
PrincipalAxes == {<<3, 0, 1>>, <<3, 0, -1>>, <<-3, 0, 1>>, <<-3, 0, -1>>, <<-3, 1, 0>>}

\* if cardiac_axis[2] < 0: cardiac_axis = -1 * cardiac_axis
Flip(cardiac_axis) ==
    IF cardiac_axis[3] < 0
    THEN <<-cardiac_axis[1], -cardiac_axis[2], -cardiac_axis[3]>>
    ELSE cardiac_axis

\* cardiac_axis[::-1]
Reversed(cardiac_axis) == <<cardiac_axis[3], cardiac_axis[2], cardiac_axis[1]>>

Dot(v, w) == v[1] * w[1] + v[2] * w[2] + v[3] * w[3]

\* np.cross(v, w)
Cross(v, w) ==
    <<v[2] * w[3] - v[3] * w[2], v[3] * w[1] - v[1] * w[3], v[1] * w[2] - v[2] * w[1]>>

\* vector_angle(v, w) in degrees, to the rotations the voxel grid carries: an
\* acute angle acts as the rotation by 0, an obtuse one as a half turn.
vector_angle(v, w) ==
    IF Dot(v, w) > 0 THEN 0 ELSE IF Dot(v, w) = 0 THEN 90 ELSE 180

\* The direction, in the slice plane, of a rotation axis that lies along x or
\* along y.
AxisDirection(rotation_axis) ==
    IF rotation_axis[2] = 0
    THEN (IF rotation_axis[1] < 0 THEN Pi ELSE 0)
    ELSE (IF rotation_axis[2] < 0 THEN 3 * (Pi \div 2) ELSE Pi \div 2)

\* Lines 128-136: the rotation angle and axis for a first principal axis.
InitialEstimate(principal_axis) ==
    LET cardiac_axis == Flip(principal_axis)
    IN  [axis |-> AxisDirection(Cross(Reversed(cardiac_axis), <<0, 0, 1>>)),
         angle |-> vector_angle(Reversed(cardiac_axis), <<0, 0, 1>>)]

\* Lines 120-152: the rotation that aligns the first principal axis of the
\* left ventricle and atrium, applied to every mask.
InitialRotation ==
    /\ pc = "orient"
    /\ IF label_left_atrium \notin DOMAIN working
       THEN Raise("KeyError", 122)
            /\ UNCHANGED <<heap, overall_transform_list, rotation_angle>>
       ELSE IF working[label_left_ventricle].geom # working[label_left_atrium].geom
       THEN Raise("RuntimeError", 122)
            /\ UNCHANGED <<heap, overall_transform_list, rotation_angle>>
       ELSE IF working[label_left_ventricle].vox \cup working[label_left_atrium].vox = {}
       THEN Raise("RuntimeError", 127)
            /\ UNCHANGED <<heap, overall_transform_list, rotation_angle>>
       ELSE \E principal_axis \in PrincipalAxes :
            \E est \in {InitialEstimate(principal_axis)} :
            LET rotation_transform ==
                    VersorRigid3DTransform(
                        RotationCentre2(working[label_left_ventricle].geom),
                        est.axis, est.angle)
            IN  /\ rotation_angle' = est.angle
                /\ overall_transform_list' = Append(overall_transform_list, rotation_transform)
                /\ heap' = [heap EXCEPT
                               ![working_contours] = ResampleAll(@, rotation_transform)]
                /\ pc' = "refine"
                /\ UNCHANGED err
    /\ n' = 0
    /\ UNCHANGED <<cfg, working_contours, output_contours, setup_vars, crop_vars,
                   next_slice, assigned, myo_vars, angle_vars>>

\* A loop condition that leaves the iteration budget out.
LoopConditionNoBudget == Abs(rotation_angle) > cfg.optimiser_tol_degrees

\* The condition of the while loop, line 164.
LoopCondition ==
    n < cfg.optimiser_max_iter /\ Abs(rotation_angle) > cfg.optimiser_tol_degrees

\* A minimum with a default value, which raises nothing.
lv_apex_unchecked(vox) == "none"

\* lv_locations[0].min(), line 170: numpy's exception for the minimum of an
\* empty array, if any.
lv_apex_error(vox) == IF vox = {} THEN "ValueError" ELSE "none"

\* Lines 164-215: one pass of the refinement.
RefineIter ==
    /\ pc = "refine"
    /\ LoopCondition
    /\ n' = n + 1
    /\ IF lv_apex_error(working[label_left_ventricle].vox) # "none"
       THEN Raise(lv_apex_error(working[label_left_ventricle].vox), 170)
            /\ UNCHANGED <<heap, overall_transform_list, rotation_angle>>
       ELSE IF label_mitral_valve \notin DOMAIN working
       THEN Raise("KeyError", 176)
            /\ UNCHANGED <<heap, overall_transform_list, rotation_angle>>
       ELSE IF get_com_error(working[label_mitral_valve].vox) # "none"
       THEN Raise(get_com_error(working[label_mitral_valve].vox), 176)
            /\ UNCHANGED <<heap, overall_transform_list, rotation_angle>>
       ELSE \E est \in Estimates :
            LET rotation_transform ==
                    VersorRigid3DTransform(
                        RotationCentre2(working[label_left_ventricle].geom),
                        est.axis, est.angle)
            IN  /\ rotation_angle' = est.angle
                /\ overall_transform_list' = Append(overall_transform_list, rotation_transform)
                /\ heap' = [heap EXCEPT
                               ![working_contours] = ResampleAll(@, rotation_transform)]
                /\ UNCHANGED <<pc, err>>
    /\ UNCHANGED <<cfg, working_contours, output_contours, setup_vars, crop_vars,
                   next_slice, assigned, myo_vars, angle_vars>>

\* Line 164, the condition false: the loop is left.
RefineExit ==
    /\ pc = "refine"
    /\ ~LoopCondition
    /\ pc' = "myocardium"
    /\ UNCHANGED <<err, cfg, heap, working_contours, output_contours,
                   overall_transform_list, setup_vars, crop_vars, rotation_angle, n,
                   next_slice, assigned, myo_vars, angle_vars>>

\* Lines 223-251: the myocardium, the limits of the thirds, the apex.
Myocardium ==
    /\ pc = "myocardium"
    /\ \E lv \in {working[label_left_ventricle]} :
       \E inner \in {BinaryErode(lv, erode_img)} :
       \E myo \in {Mask(Image(lv.geom, lv.vox \ inner.vox),
                        BinaryDilate(inner, erode_img))} :
       /\ label_lv_inner' = inner
       /\ label_lv_myo' = myo
       /\ IF inner.vox = {}
          THEN Raise("RuntimeError", 237)
               /\ UNCHANGED <<label_lv_myo_apex, inf_limit_lv, com_mv, apical_extent,
                              mid_extent, basal_extent>>
          ELSE IF label_mitral_valve \notin DOMAIN working
          THEN Raise("KeyError", 239)
               /\ UNCHANGED <<label_lv_myo_apex, inf_limit_lv, com_mv, apical_extent,
                              mid_extent, basal_extent>>
          ELSE IF get_com_error(working[label_mitral_valve].vox) # "none"
          THEN Raise(get_com_error(working[label_mitral_valve].vox), 239)
               /\ UNCHANGED <<label_lv_myo_apex, inf_limit_lv, com_mv, apical_extent,
                              mid_extent, basal_extent>>
          ELSE LET inf == Min({Z(p) : p \in inner.vox})
                   com == ComZ(working[label_mitral_valve].vox)
                   dc == IntDiv(com - inf, 3)
               IN  /\ inf_limit_lv' = inf
                   /\ com_mv' = com
                   /\ apical_extent' = inf + dc
                   /\ mid_extent' = inf + 2 * dc
                   /\ basal_extent' = com
                   /\ label_lv_myo_apex' = ZeroSlices(myo, inf, myo.geom.size)
                   /\ pc' = "angles"
                   /\ UNCHANGED err
    /\ UNCHANGED <<cfg, heap, working_contours, output_contours, overall_transform_list,
                   setup_vars, crop_vars, rotation_angle, n, next_slice,
                   assigned, angle_vars>>

\* np.arctan2(lv_com_basal_y - loc_rv_basal_y, loc_rv_basal_x - lv_com_basal_x)
\* left as it is, in (-pi, pi].
ThetaRvSigned(a) == IF a = Pi THEN Pi ELSE -Arctan2Of(a)

\* np.arctan2(lv_com_basal_y - loc_rv_basal_y, loc_rv_basal_x - lv_com_basal_x),
\* then theta_rv[theta_rv < 0] += 2 * np.pi
ThetaRv(a) ==
    LET t == IF a = Pi THEN Pi ELSE -Arctan2Of(a)
    IN  IF t < 0 THEN t + 2 * Pi ELSE t

\* np.arctan2(lv_com_apical[0] - rv_com_apical[0], rv_com_apical[1] - lv_com_apical[1])
\* for a right ventricle centroid lying in the direction d.
ThetaApical(d) == IF d = Pi THEN Pi ELSE -d

\* loc_rv_z_basal
BasalRange == mid_extent..(mid_extent + BasalSlices - 1)

\* The exception lines 289-302 raise on slice z, if any.
BasalSliceError(z) ==
    LET lv == working[label_left_ventricle]
        k == IF z < 0 THEN z + lv.geom.size ELSE z
    IN  IF k \notin 0..(lv.geom.size - 1) THEN [kind |-> "IndexError", line |-> 295]
        ELSE IF get_com_error(SliceOf(lv, k)) # "none"
        THEN [kind |-> get_com_error(SliceOf(lv, k)), line |-> 295]
        ELSE IF SliceOf(working[label_right_ventricle], z) = {}
        THEN [kind |-> "ValueError", line |-> 302]
        ELSE NoError

\* theta_rv_insertion: theta_rv.min() of each of the slices.
ThetaRvInsertion ==
    [i \in 1..BasalSlices |->
        Min({ThetaRv(A(p)) : p \in SliceOf(working[label_right_ventricle],
                                           mid_extent + i - 1)})]

ApicalRange == inf_limit_lv..(apical_extent - 1)

\* for i in range(17): working_contours[i + 1] = 0 * working_contours[label_heart],
\* then working_contours[17] = label_lv_myo_apex
AllocateSegments(d) ==
    [k \in (DOMAIN d) \cup {Seg(i + 1) : i \in 0..16} |->
        IF k = Seg(17) THEN label_lv_myo_apex
        ELSE IF k \in {Seg(i + 1) : i \in 0..16} THEN Zero(d[label_heart])
        ELSE d[k]]

\* Lines 280-323: theta_0, theta_0_apical, the 17 segment volumes.
ReferenceAngles ==
    /\ pc = "angles"
    /\ IF label_right_ventricle \notin DOMAIN working
       THEN Raise("KeyError", 284) /\ UNCHANGED <<heap, angle_vars, n, next_slice, assigned>>
       ELSE IF \E z \in BasalRange : BasalSliceError(z) # NoError
       THEN LET z == Min({y \in BasalRange : BasalSliceError(y) # NoError})
            IN  Raise(BasalSliceError(z).kind, BasalSliceError(z).line)
                /\ UNCHANGED <<heap, angle_vars, n, next_slice, assigned>>
       ELSE IF \E z \in ApicalRange :
                  get_com_error(SliceOf(working[label_left_ventricle], z)) # "none"
       THEN Raise("EmptyMaskError", 310)
            /\ theta_0' = Median(ThetaRvInsertion)
            /\ UNCHANGED <<heap, theta_0_apical, n, next_slice, assigned>>
       ELSE IF \E z \in ApicalRange :
                  get_com_error(SliceOf(working[label_right_ventricle], z)) # "none"
       THEN Raise("EmptyMaskError", 311)
            /\ theta_0' = Median(ThetaRvInsertion)
            /\ UNCHANGED <<heap, theta_0_apical, n, next_slice, assigned>>
       ELSE IF ApicalRange = {}
       THEN Raise("IndexError", 317)
            /\ theta_0' = Median(ThetaRvInsertion)
            /\ UNCHANGED <<heap, theta_0_apical, n, next_slice, assigned>>
       ELSE /\ theta_0' = Median(ThetaRvInsertion)
            /\ theta_0_apical' =
                   ThetaApical(ComDirection(
                       {p \in working[label_right_ventricle].vox : Z(p) \in ApicalRange}))
            /\ n' = apical_extent - 1
            /\ heap' = [heap EXCEPT ![working_contours] = AllocateSegments(@)]
            /\ next_slice' = inf_limit_lv
            /\ assigned' = {}
            /\ pc' = "apical"
            /\ UNCHANGED err
    /\ UNCHANGED <<cfg, working_contours, output_contours, overall_transform_list,
                   setup_vars, crop_vars, rotation_angle, myo_vars>>

\* The assignments of one pass of a slice loop: each segment of the band
\* takes, on slice z, the voxels extract returns for its window.
AssignSlice(d, segments, slice, reference, z) ==
    [k \in DOMAIN d |->
        IF k \in {Seg(s) : s \in segments}
        THEN SetSlice(d[k], z,
                      extract(slice, reference, Window(k.id).angle_min,
                              Window(k.id).angle_max, Window(k.id).cw))
        ELSE d[k]]

\* One pass of a slice loop, or its end: stop is the end of the range and
\* after the position that follows the loop.
SliceLoop(here, segments, reference, stop, after, line) ==
    /\ pc = here
    /\ IF next_slice < stop
       THEN /\ n' = next_slice
            /\ IF get_com_error(SliceOf(label_lv_myo, next_slice)) # "none"
               THEN Raise(get_com_error(SliceOf(label_lv_myo, next_slice)), line)
                    /\ UNCHANGED <<heap, next_slice, assigned>>
               ELSE /\ heap' = [heap EXCEPT ![working_contours] =
                                   AssignSlice(@, segments,
                                               SliceOf(label_lv_myo, next_slice),
                                               reference, next_slice)]
                    /\ next_slice' = next_slice + 1
                    /\ assigned' = assigned \cup {next_slice}
                    /\ UNCHANGED <<pc, err>>
       ELSE /\ pc' = after
            /\ UNCHANGED <<err, heap, n, next_slice, assigned>>
    /\ UNCHANGED <<cfg, working_contours, output_contours, overall_transform_list,
                   setup_vars, crop_vars, rotation_angle, myo_vars, angle_vars>>

\* Lines 327-355: for n in range(inf_limit_lv, apical_extent)
ApicalSlices == SliceLoop("apical", ApicalSegments, theta_0_apical, apical_extent, "mid", 336)

\* Lines 358-392: for n in range(apical_extent, mid_extent)
MidSlices == SliceLoop("mid", MidSegments, theta_0, mid_extent, "basal", 367)

\* Lines 395-429: for n in range(mid_extent, basal_extent)
BasalSlicesLoop == SliceLoop("basal", BasalSegments, theta_0, basal_extent, "reproject", 404)

\* Lines 442-458: one segment, rotated back, closed and pasted.
NewStructure(segment, inverse_transform) ==
    LET resampled == Resample(working[Seg(segment + 1)], inverse_transform)
        closed == IF cfg.hole_fill_mm > 0
                  THEN BinaryMorphologicalClosing(resampled, hole_fill_img)
                  ELSE resampled
    IN  Paste(Zero(contours[label_heart]), closed, cb_index)

\* Lines 436-462: the segments in the space of the input, returned.
Reproject ==
    /\ pc = "reproject"
    /\ LET overall_transform == CompositeTransform(overall_transform_list)
           inverse_transform == GetInverse(overall_transform)
       IN  IF \E segment \in 0..16 :
                 ~RoiFits(contours[label_heart],
                          working[Seg(segment + 1)].geom.size, cb_index)
           THEN Raise("RuntimeError", 452) /\ UNCHANGED output_contours
           ELSE /\ output_contours' =
                       [k \in {Seg(segment + 1) : segment \in 0..16} |->
                           NewStructure(k.id - 1, inverse_transform)]
                /\ pc' = "done"
                /\ UNCHANGED err
    /\ UNCHANGED <<cfg, heap, working_contours, overall_transform_list, setup_vars,
                   crop_vars, rotation_angle, n, next_slice,
                   assigned, myo_vars, angle_vars>>

Next ==
    \/ Setup
    \/ Crop
    \/ InitialRotation
    \/ RefineIter
    \/ RefineExit
    \/ Myocardium
    \/ ReferenceAngles
    \/ ApicalSlices
    \/ MidSlices
    \/ BasalSlicesLoop
    \/ Reproject

Spec == Init /\ [][Next]_vars

\* ================================================================ claims
SegmentKeys == {Seg(k) : k \in 1..17}

\* The input masks all lie on one grid.
Compatible == \A j, k \in DOMAIN contours : contours[j].geom = contours[k].geom

\* A required structure is not a key of the input.
StructureAbsent == Required \ DOMAIN contours # {}

\* The whole heart is given, without a positive voxel.
HeartEmpty == label_heart \in DOMAIN contours /\ contours[label_heart].vox = {}

\* No segment exists: none is returned, none is a key of the working set.
NoSegmentProduced ==
    output_contours = EmptyDict /\ (DOMAIN working) \cap SegmentKeys = {}

\* The positions before the 17 segment volumes are allocated (line 320).
BeforeSegments == {"start", "crop", "orient", "refine", "myocardium", "angles", "error"}

\* The last rotation angle is above the tolerance.
NotConverged == Abs(rotation_angle) > cfg.optimiser_tol_degrees

\* The voxels the segments of a band hold together.
UnionOf(segments) == UNION {working[Seg(s)].vox : s \in segments}

\* The myocardium on the slices lo .. hi - 1.
MyocardiumOn(lo, hi) == {p \in label_lv_myo.vox : lo <= Z(p) /\ Z(p) < hi}

\* The band a slice belongs to, and the reference angle of that band.
BandOf(z) ==
    IF z < apical_extent THEN ApicalSegments
    ELSE IF z < mid_extent THEN MidSegments ELSE BasalSegments
ReferenceOf(z) == IF z < apical_extent THEN theta_0_apical ELSE theta_0

\* The slices the slice loops have been through.
Processed ==
    IF pc \in {"apical", "mid", "basal"} THEN inf_limit_lv..(next_slice - 1)
    ELSE IF pc = "reproject" THEN inf_limit_lv..(basal_extent - 1)
    ELSE {}

\* The image rotated back one transform at a time, the last one first.
RECURSIVE UndoAll(_, _)
UndoAll(img, list) ==
    IF list = << >> THEN img
    ELSE UndoAll(Resample(img, <<InverseOf(list[Len(list)])>>),
                 SubSeq(list, 1, Len(list) - 1))

\* The hole filling of line 450.
Closed(img) ==
    IF cfg.hole_fill_mm > 0 THEN BinaryMorphologicalClosing(img, hole_fill_img) ELSE img

\* C1 (as the specification states it): with hole_fill_mm = 0, the 17 masks a
\* run returns are pairwise disjoint, the voxels whose angle is a window limit
\* included.  The code selects with closed windows, so this fails.
C1_Original ==
    (pc = "done" /\ cfg.hole_fill_mm = 0 /\ Compatible)
        => \A j, k \in 1..17 :
               j < k => output_contours[Seg(j)].vox \cap output_contours[Seg(k)].vox = {}

\* C2 (as the specification states it): in the aligned frame, once the three
\* slice loops are through and before the reprojection, segments 1-6 hold
\* together exactly the myocardium of the basal slices, 7-12 that of the mid
\* slices, 13-16 that of the apical slices, and segment 17 is the myocardium
\* below the apical band, whatever theta_0 and theta_0_apical are.  The code
\* adds 2*pi to a negative angle once only, so this fails when theta_0 > pi.
C2_Original ==
    pc = "reproject"
        => /\ UnionOf(BasalSegments) = MyocardiumOn(mid_extent, basal_extent)
           /\ UnionOf(MidSegments) = MyocardiumOn(apical_extent, mid_extent)
           /\ UnionOf(ApicalSegments) = MyocardiumOn(inf_limit_lv, apical_extent)
           /\ working[Seg(17)].vox = MyocardiumOn(0, inf_limit_lv)

\* C3 (as the specification states it): on every slice a slice loop has been
\* through, a myocardium voxel whose angle theta lies in [0, 2*pi) has been
\* selected by extract for exactly one segment of the band of the slice, the
\* window limits included.  Neighbouring windows share their limit, so this
\* fails.
C3_Original ==
    \A z \in Processed :
        \A p \in SliceOf(label_lv_myo, z) :
            Theta(A(p), ReferenceOf(z)) \in 0..(2 * Pi - 1)
                => Cardinality({s \in BandOf(z) : p \in working[Seg(s)].vox}) = 1

\* C4: what a run returns has exactly the keys 1..17, and each value has the
\* size, spacing, origin and direction of the whole-heart mask the caller
\* gave, whatever the crop box and the number of refinement passes.
C4_OutputContract ==
    pc = "done"
        => /\ DOMAIN output_contours = SegmentKeys
           /\ \A k \in SegmentKeys : output_contours[k].geom = contours[label_heart].geom

\* A run that cropped the volume and refined once has returned.
C4_Witness ==
    /\ pc = "done"
    /\ cb_index > 0 /\ cb_size < contours[label_heart].geom.size
    /\ Len(overall_transform_list) = 2

\* C5: no step of a run, ending well or in an exception, changes the caller's
\* dictionary: its keys and the voxels and geometry of its volumes stay as
\* given.
C5_InputNotMutated == [][heap'.caller = heap.caller]_vars

\* A run has returned, having cropped and rotated the masks of its working
\* set and added the integer keys to it.
C5_Witness ==
    /\ pc = "done"
    /\ Seg(17) \in DOMAIN heap.work /\ Seg(17) \notin DOMAIN heap.caller
    /\ heap.work[label_left_ventricle] # heap.caller[label_left_ventricle]

\* C6: the refinement counts its passes in n, never beyond
\* optimiser_max_iter; the transform list holds the initial transform and one
\* transform per pass; with optimiser_max_iter = 0 no pass is made and the
\* list holds the initial transform alone.
C6_LoopBounded ==
    /\ pc \in {"refine", "myocardium", "angles"}
           => /\ n <= cfg.optimiser_max_iter
              /\ Len(overall_transform_list) = 1 + n
    /\ Len(overall_transform_list) <= 1 + cfg.optimiser_max_iter
    /\ (cfg.optimiser_max_iter = 0 /\ pc \notin {"start", "crop", "orient", "error"})
           => Len(overall_transform_list) = 1

\* The loop has been left after one pass.
C6_Witness ==
    pc = "myocardium" /\ n = 1 /\ Len(overall_transform_list) = 2

\* C7: when the passes are used up with the rotation angle still above the
\* tolerance, the loop is left without an exception and with the list as it
\* is, for the myocardium step; and a run that returns in that case returns 17
\* segments, each the working segment rotated back through every transform
\* of the list, the last one first, then closed and pasted.
C7_NonConvergenceIsNoError ==
    [][/\ (pc = "refine" /\ n = cfg.optimiser_max_iter /\ NotConverged)
              => (pc' = "myocardium" /\ err' = NoError
                  /\ overall_transform_list' = overall_transform_list)
       /\ (pc' = "done" /\ NotConverged)
              => /\ DOMAIN output_contours' = SegmentKeys
                 /\ \A k \in SegmentKeys :
                        output_contours'[k] =
                            Paste(Zero(contours[label_heart]),
                                  Closed(UndoAll(working[k], overall_transform_list)),
                                  cb_index)]_vars

\* A run whose single pass left the angle above the tolerance has returned.
C7_Witness ==
    /\ pc = "done" /\ NotConverged
    /\ cfg.optimiser_max_iter = 1 /\ Len(overall_transform_list) = 2
    /\ DOMAIN output_contours = SegmentKeys

\* C8 (amended): a run whose input lacks a required structure does not get
\* past the first use of that structure: it ends in a KeyError, with no
\* segment produced; a run whose whole-heart mask has no positive voxel ends
\* in the MissingStructureError of label_to_roi, before anything is cropped.
C8_AbsentStructureFails ==
    /\ StructureAbsent
           => /\ pc \in BeforeSegments
              /\ NoSegmentProduced
              /\ pc = "error" => err.kind = "KeyError"
    /\ (HeartEmpty /\ ~StructureAbsent)
           => /\ pc \in {"start", "crop", "error"}
              /\ NoSegmentProduced
              /\ pc = "error" => err = [kind |-> "MissingStructureError", line |-> 112]

\* A run without the right ventricle has failed where theta_0 is computed.
C8_Witness ==
    /\ pc = "error"
    /\ label_right_ventricle \notin DOMAIN contours
    /\ err = [kind |-> "KeyError", line |-> 284]

\* C8 (as the specification states it): a run whose input lacks a required
\* structure, or whose whole-heart mask is empty, ends in a
\* MissingStructureError.
C8_Original ==
    (StructureAbsent \/ HeartEmpty)
        => (pc = "error" => err.kind = "MissingStructureError")

\* C9 (amended): a refinement pass that finds the left ventricle without a
\* positive voxel ends the run in numpy's ValueError (line 170), one that
\* finds the mitral valve so in the EmptyMaskError of get_com (line 176); in
\* both cases nothing is returned.
C9_EmptyMaskInLoop ==
    [][(/\ pc = "refine" /\ LoopCondition
        /\ label_mitral_valve \in DOMAIN working
        /\ \/ working[label_left_ventricle].vox = {}
           \/ working[label_mitral_valve].vox = {})
          => /\ pc' = "error"
             /\ err'.kind = (IF working[label_left_ventricle].vox = {}
                             THEN "ValueError" ELSE "EmptyMaskError")
             /\ output_contours' = EmptyDict]_vars

\* A pass has failed on an empty left ventricle.
C9_Witness ==
    /\ pc = "error"
    /\ err = [kind |-> "ValueError", line |-> 170]
    /\ working[label_left_ventricle].vox = {}
    /\ output_contours = EmptyDict

\* C9 (as the specification states it): a refinement pass that finds the left
\* ventricle or the mitral valve without a positive voxel ends the run in an
\* EmptyMaskError.
C9_Original ==
    [][(/\ pc = "refine" /\ LoopCondition
        /\ label_mitral_valve \in DOMAIN working
        /\ \/ working[label_left_ventricle].vox = {}
           \/ working[label_mitral_valve].vox = {})
          => (pc' = "error" /\ err'.kind = "EmptyMaskError")]_vars

\* C10 (as the specification states it, in part): a run whose input masks do
\* not all have the same geometry does not return segments.  The code
\* compares no geometries, so this fails.
C10_Original == ~Compatible => pc # "done"

\* C11: once the alignment is through, each mask of the working set, which
\* has been resampled by the transforms of the list one after the other,
\* resampled once more by the inverse of their composite is again the cropped
\* input mask, voxel for voxel (the masks share one grid, which each
\* transform maps onto itself).
C11_RoundTrip ==
    (pc = "myocardium" /\ Compatible)
        => \A k \in DOMAIN contours :
               Resample(working[k],
                        GetInverse(CompositeTransform(overall_transform_list)))
                   = crop_to_roi(contours[k], cb_size, cb_index)

\* The alignment has ended with two different half turns in the list, which
\* do not commute.
C11_Witness ==
    /\ pc = "myocardium" /\ Compatible
    /\ Len(overall_transform_list) = 2
    /\ overall_transform_list[1].angle = 180 /\ overall_transform_list[2].angle = 180
    /\ overall_transform_list[1].axis # overall_transform_list[2].axis
    /\ working[label_right_ventricle] # crop_to_roi(contours[label_right_ventricle],
                                                    cb_size, cb_index)


\* The image resampled by the transforms of the list one after the other.
RECURSIVE ForwardAll(_, _)
ForwardAll(img, list) ==
    IF list = << >> THEN img
    ELSE ForwardAll(Resample(img, <<Head(list)>>), Tail(list))

\* C13: when the input masks share one geometry, the masks of the working
\* set share one geometry at every position of the run; and after the crop,
\* after the initial rotation and after each refinement pass, a mask the
\* caller gave beside the five named ones is the input mask cropped to the
\* box of the whole heart and resampled by every transform of the list.
C13_WorkingSetCompatible ==
    Compatible
        => /\ \A j, k \in DOMAIN working : working[j].geom = working[k].geom
           /\ pc \in {"orient", "refine", "myocardium"}
                  => \A k \in (DOMAIN contours) \ Required :
                         /\ k \in DOMAIN working
                         /\ working[k] =
                                ForwardAll(crop_to_roi(contours[k], cb_size, cb_index),
                                           overall_transform_list)

\* A refinement pass has run on a cropped working set that holds a mask
\* beside the five named ones, turned away from its input position.
C13_Witness ==
    /\ pc = "refine" /\ n = 1 /\ Compatible
    /\ cb_index > 0
    /\ Name("AORTA") \in DOMAIN working
    /\ working[Name("AORTA")] # crop_to_roi(contours[Name("AORTA")], cb_size, cb_index)

\* The membership rule of the specification's table for the window w: half
\* open [min, max), or for the wrap window theta <= min or theta >= max.
HalfOpenCondition(angle, w) ==
    IF w.cw
    THEN (angle <= w.angle_min) \/ (angle >= w.angle_max)
    ELSE (w.angle_min <= angle) /\ (angle < w.angle_max)

\* C14 (as the specification states it): on every slice a slice loop has
\* been through, a myocardium voxel with angle theta is in a segment of the
\* band of the slice iff theta lies in the half-open window [min, max) of
\* the segment, for segment 14 iff theta <= pi/4 or theta >= 7*pi/4, with
\* the limits of the table.  The code's windows hold their upper limit too,
\* so this fails.
C14_Original ==
    \A z \in Processed :
        \A p \in SliceOf(label_lv_myo, z) :
            \A s \in BandOf(z) :
                p \in working[Seg(s)].vox
                    <=> HalfOpenCondition(Theta(A(p), ReferenceOf(z)), Window(s))

\* C15 (as the specification states it): on every slice a slice loop has
\* been through, the angle theta of every myocardium voxel, after the
\* normalisation step, lies in [0, 2*pi), whatever the reference angle of
\* the band is.  The code adds 2*pi once, so with theta_0 > pi an angle
\* stays negative and this fails.
C15_Original ==
    \A z \in Processed :
        \A p \in SliceOf(label_lv_myo, z) :
            /\ 0 <= Theta(A(p), ReferenceOf(z))
            /\ Theta(A(p), ReferenceOf(z)) < 2 * Pi

\* The slices lo .. hi - 1 of range(lo, hi).
Range(lo, hi) == lo..(hi - 1)

\* C16 (amended): once the limits are computed, with extent = com_mv -
\* inf_limit_lv and third = int(extent / 3), the quotient cut toward zero,
\* the limits are apical_extent = inf_limit_lv + third, mid_extent =
\* inf_limit_lv + 2 * third and basal_extent = com_mv; the apex cap (the
\* slices below inf_limit_lv) and the ranges of the apical, mid and basal
\* loops are pairwise disjoint and hold every slice below com_mv; and the
\* apex volume is the myocardium on the slices of the cap.
C16_AxialBands ==
    pc = "angles"
        => LET extent == com_mv - inf_limit_lv
               third == IF extent >= 0 THEN extent \div 3 ELSE -((-extent) \div 3)
               cap == Range(0, inf_limit_lv)
               apical == Range(inf_limit_lv, apical_extent)
               mid == Range(apical_extent, mid_extent)
               basal == Range(mid_extent, basal_extent)
           IN  /\ apical_extent = inf_limit_lv + third
               /\ mid_extent = inf_limit_lv + 2 * third
               /\ basal_extent = com_mv
               /\ cap \cap apical = {} /\ cap \cap mid = {} /\ cap \cap basal = {}
               /\ apical \cap mid = {} /\ apical \cap basal = {} /\ mid \cap basal = {}
               /\ Range(0, com_mv) \subseteq (cap \cup apical \cup mid \cup basal)
               /\ label_lv_myo_apex.vox = MyocardiumOn(0, inf_limit_lv)

\* The limits are computed for a mitral valve below the lowest slice of the
\* eroded left ventricle: the extent is negative and no multiple of 3.
C16_Witness ==
    /\ pc = "angles"
    /\ com_mv - inf_limit_lv < 0
    /\ (com_mv - inf_limit_lv) % 3 # 0

\* C16 (as the specification states it): third is extent // 3, the floor of
\* the quotient.
C16_Original ==
    pc = "angles"
        => /\ apical_extent = inf_limit_lv + ((com_mv - inf_limit_lv) \div 3)
           /\ mid_extent = inf_limit_lv + 2 * ((com_mv - inf_limit_lv) \div 3)

\* The polar angle, counter-clockwise and in [0, 2 * pi), of the voxel p about
\* the centroid of the left ventricle on its slice.
PolarAngle(p) == (2 * Pi - A(p)) % (2 * Pi)

\* The smallest polar angle of the right ventricle voxels of slice z.
SliceMinimum(z) ==
    Min({PolarAngle(p) : p \in SliceOf(working[label_right_ventricle], z)})

C18_Myocardium ==
    LET lv == working[label_left_ventricle]
    IN  /\ pc = "angles"
            => /\ label_lv_inner = BinaryErode(lv, erode_img)
               /\ label_lv_myo.vox
                      = (lv.vox \ label_lv_inner.vox)
                            \cap BinaryDilate(label_lv_inner, erode_img).vox
        /\ pc \in {"angles", "apical", "mid", "basal", "reproject"}
            => /\ label_lv_myo.vox \subseteq lv.vox
               /\ label_lv_myo.vox \cap label_lv_inner.vox = {}
        /\ pc \in {"apical", "mid", "basal", "reproject"}
            => \A s \in 1..17 : working[Seg(s)].vox \subseteq label_lv_myo.vox

\* All slices are assigned, some segment 1 .. 16 and segment 17 hold voxels,
\* and the restriction to the dilation has removed voxels of the wall.
C18_Witness ==
    /\ pc = "reproject"
    /\ \E s \in 1..16 : working[Seg(s)].vox # {}
    /\ working[Seg(17)].vox # {}
    /\ label_lv_myo.vox # working[label_left_ventricle].vox \ label_lv_inner.vox

\* The wall below the eroded left ventricle, with no restriction: the voxels
\* of the left ventricle minus the eroded left ventricle on the slices below
\* inf_limit_lv.
FullWallBelow ==
    {p \in working[label_left_ventricle].vox \ label_lv_inner.vox : Z(p) < inf_limit_lv}

\* C19 (amended): segment 17 is taken from the same myocardium as segments
\* 1 .. 16, the left ventricle minus the eroded left ventricle restricted to
\* the dilation of the eroded left ventricle: it is that myocardium on the
\* slices below inf_limit_lv, when the segments are allocated and up to the
\* reprojection.
C19_ApexFromMaskedMyocardium ==
    /\ (pc = "apical" /\ assigned = {})
           => working[Seg(17)].vox
                  = FullWallBelow \cap BinaryDilate(label_lv_inner, erode_img).vox
    /\ pc \in {"apical", "mid", "basal", "reproject"}
           => working[Seg(17)].vox = MyocardiumOn(0, inf_limit_lv)

\* Segment 17 is allocated, holds voxels, and the dilation of the eroded left
\* ventricle leaves out voxels of the wall below inf_limit_lv.
C19_Witness ==
    /\ pc = "apical"
    /\ working[Seg(17)].vox # {}
    /\ ~(FullWallBelow \subseteq BinaryDilate(label_lv_inner, erode_img).vox)

\* C19 (as the specification states it): segment 17 is the left ventricle
\* minus the eroded left ventricle on the slices below inf_limit_lv, with no
\* restriction to the dilation.
C19_Original ==
    pc \in {"apical", "mid", "basal", "reproject"}
        => working[Seg(17)].vox = FullWallBelow

\* C20 (as the specification implies it): the initial rotation comes from a
\* first principal axis for which the vector used after the flip,
\* cardiac_axis[::-1], has a non-negative component along (0, 0, 1), and its
\* angle is at most 90 degrees.
C20_Original ==
    (pc = "refine" /\ n = 0)
        => /\ rotation_angle <= 90
           /\ \E a \in PrincipalAxes :
                  /\ InitialEstimate(a).angle = rotation_angle
                  /\ Dot(Reversed(Flip(a)), <<0, 0, 1>>) >= 0

\* A valid input: every required structure is given, the masks lie on one
\* grid, and every required mask holds a voxel.
ValidInput ==
    /\ ~StructureAbsent
    /\ Compatible
    /\ \A k \in Required : contours[k].vox # {}

\* C21 (as the specification implies it): for a valid input, when the limits
\* are computed, each of the five slices mid_extent .. mid_extent + 4 lies in
\* the basal band (below com_mv), lies inside the cropped volume, and holds a
\* voxel of the right ventricle.
C21_Original ==
    (pc = "angles" /\ ValidInput)
        => \A z \in BasalRange :
               /\ mid_extent <= z /\ z < com_mv
               /\ 0 <= z /\ z < working[label_right_ventricle].geom.size
               /\ SliceOf(working[label_right_ventricle], z) # {}

\* ------------------------------------------ the slice steps in any order
\* The slices of the three bands: the ranges of lines 327, 358 and 395.
BandSlices ==
    (inf_limit_lv..(apical_extent - 1)) \cup (apical_extent..(mid_extent - 1))
        \cup (mid_extent..(basal_extent - 1))

\* The line of get_com in the loop of the band of slice z.
LineOf(z) == IF z < apical_extent THEN 336 ELSE IF z < mid_extent THEN 367 ELSE 404

\* The body of the slice loop of its band, run for any slice not yet done.
AnySlice ==
    /\ pc = "apical"
    /\ \E z \in BandSlices \ assigned :
          /\ n' = z
          /\ IF get_com_error(SliceOf(label_lv_myo, z)) # "none"
             THEN Raise(get_com_error(SliceOf(label_lv_myo, z)), LineOf(z))
                  /\ UNCHANGED <<heap, assigned>>
             ELSE /\ heap' = [heap EXCEPT ![working_contours] =
                                 AssignSlice(@, BandOf(z), SliceOf(label_lv_myo, z),
                                             ReferenceOf(z), z)]
                  /\ assigned' = assigned \cup {z}
                  /\ UNCHANGED <<pc, err>>
    /\ UNCHANGED <<cfg, working_contours, output_contours, overall_transform_list,
                   setup_vars, crop_vars, rotation_angle, next_slice, myo_vars,
                   angle_vars>>

\* Every slice of the three bands is done.
AllSlicesAssigned ==
    /\ pc = "apical"
    /\ assigned = BandSlices
    /\ pc' = "reproject"
    /\ UNCHANGED <<err, cfg, heap, working_contours, output_contours,
                   overall_transform_list, setup_vars, crop_vars, rotation_angle, n,
                   next_slice, assigned, myo_vars, angle_vars>>

\* The runs of valid inputs with the mitral valve on one slice.
InitAnyOrder ==
    /\ Init
    /\ \E rv \in {0, 6} :
          contours = InputContours([kind |-> "none", label |-> label_heart], rv, 10, TRUE)

NextAnyOrder ==
    \/ Setup
    \/ Crop
    \/ InitialRotation
    \/ RefineIter
    \/ RefineExit
    \/ Myocardium
    \/ ReferenceAngles
    \/ AnySlice
    \/ AllSlicesAssigned
    \/ Reproject

SpecAnyOrder == InitAnyOrder /\ [][NextAnyOrder]_vars

\* The working set the three loops of the source give, run slice by slice
\* in ascending order from slice z on.
RECURSIVE InOrderFrom(_, _)
InOrderFrom(d, z) ==
    IF z >= basal_extent THEN d
    ELSE InOrderFrom(AssignSlice(d, BandOf(z), SliceOf(label_lv_myo, z),
                                 ReferenceOf(z), z),
                     z + 1)

\* C12: with the slice steps taken in any order, a step leaves the slices
\* that are not done empty in segments 1-16, and once every slice is done
\* the 17 segment volumes are those the loops of the source give in
\* ascending order.
C12_OrderIndependent ==
    /\ pc = "apical"
           => \A s \in 1..16 : \A p \in working[Seg(s)].vox : Z(p) \in assigned
    /\ pc = "reproject"
           => \A k \in SegmentKeys :
                  working[k] = InOrderFrom(AllocateSegments(working), inf_limit_lv)[k]

\* Every slice is done, and the last one done is not the last of the range.
C12_Witness ==
    /\ pc = "reproject"
    /\ assigned = BandSlices /\ Cardinality(assigned) >= 3
    /\ n # basal_extent - 1

====
